---- MODULE Spec2Model ----
(***************************************************************************)
(* Predictor.predict of predict.py: request validation, lazy loading of    *)
(* the diffusion decoder and of the model cache, seeding of the random     *)
(* sources, and the segmented long-form generation loop that stitches      *)
(* model calls together with an overlap.                                   *)
(*                                                                         *)
(* Waveforms are represented by their sample count (the last dimension of  *)
(* the tensor).  Seeds are Python integers that do not fit TLC's 32-bit    *)
(* integers, so an integer v is kept as the pair <<v \div 2^16, v % 2^16>> *)
(* (floor division, so -1 is <<-1, 2^16 - 1>>) and the 64-bit value        *)
(* returned by torch.seed() as four 16-bit limbs, most significant first.  *)
(***************************************************************************)
EXTENDS Integers, Sequences, FiniteSets, TLC

VARIABLES
    pc,                 \* position of the invocation of predict
    req,                \* the arguments of the invocation in progress
    loaded_models,      \* keys of self.loaded_models
    has_mbd,            \* hasattr(self, "mbd")
    fetches,            \* download_weights calls made by this invocation
    rng,                \* value this invocation seeded each random source with
    seed,               \* local variable seed (printed by "Using seed ...")
    configs,            \* durations passed to model.set_generation_params, in order
    segment_duration,   \* local variable segment_duration
    duration,           \* local variable duration (the remaining duration)
    segment,            \* number of samples of the local tensor segment
    calls,              \* model generation calls made by this invocation, in order
    written,            \* number of samples handed to audio_write
    err                 \* the exception that ended the invocation

vars == <<pc, req, loaded_models, has_mbd, fetches, rng, seed, configs,
          segment_duration, duration, segment, calls, written, err>>

---------------------------------------------------------------------------
(* Bounds of the model *)

MaxDuration == 82
MaxNonPositive == 1

---------------------------------------------------------------------------
(* Values *)

None == <<>>

Base == 2^16

IntPair(hi, lo) == <<hi, lo>>

MinusOne == IntPair(-1, Base - 1)
Zero == IntPair(0, 0)

\* choices of model_version, as the words between the hyphens
ModelVersions ==
    { <<"stereo", "melody", "large">>, <<"stereo", "large">>,
      <<"melody", "large">>, <<"large">> }

StereoLarge == <<"stereo", "large">>
Large == <<"large">>

Prompts == { None, <<"calm piano">> }
InputAudios == { None, <<"melody.wav">> }
Durations == (0 - MaxNonPositive) .. MaxDuration

\* seed arguments: None, -1, 0, 1, 2^32
Seeds == { None, MinusOne, Zero, IntPair(0, 1), IntPair(Base, 0) }

\* values torch.seed() may return
Entropy ==
    { <<0, 0, 0, 0>>, <<0, 0, 0, 1>>, <<0, 0, 0, 2>>,
      <<7, 9, 0, 0>>, <<7, 9, 0, 1>>, <<Base - 1, Base - 1, 0, 2>> }

\* choices of output_format
OutputFormats == { "wav", "mp3" }

Requests ==
    [ model_version : ModelVersions, prompt : Prompts, input_audio : InputAudios,
      duration : Durations, multi_band_diffusion : BOOLEAN, seed : Seeds,
      output_format : OutputFormats ]

NoRequest ==
    [ model_version |-> None, prompt |-> None, input_audio |-> None,
      duration |-> 0, multi_band_diffusion |-> FALSE, seed |-> None,
      output_format |-> "wav" ]

Unseeded == [ random |-> None, numpy |-> None, torch |-> None ]

\* model.sample_rate of the MusicGen checkpoints
sample_rate == 32000

\* segment_duration = 30
segment_limit == 30

\* overlap = 5
overlap == 5

---------------------------------------------------------------------------
(* Validation, lines 122-134 *)

\* "stereo" in model_version
ContainsWord(version, word) == \E i \in 1..Len(version) : version[i] = word

NoInput(r) == r.prompt = None /\ r.input_audio = None

MelodyUnsupported(r) ==
    /\ (r.model_version = StereoLarge \/ r.model_version = Large)
    /\ r.input_audio # None

\* the variant compared by name instead of searched for "stereo"
DiffusionUnsupported_ByName(r) ==
    r.model_version = StereoLarge /\ r.multi_band_diffusion

DiffusionUnsupported(r) ==
    ContainsWord(r.model_version, "stereo") /\ r.multi_band_diffusion

---------------------------------------------------------------------------
(* Seeding, lines 163-167 and set_all_seeds *)

\* not seed or seed == -1
NoSeed(s) == s = None \/ s = Zero \/ s = MinusOne

\* x % 2**32 of a 64-bit value
Mod32(e) == IntPair(e[3], e[4])

\* x - 1
Pred(x) == IF x[2] > 0 THEN IntPair(x[1], x[2] - 1) ELSE IntPair(x[1] - 1, Base - 1)

\* torch.seed() % 2**32 - 1
DrawnSeed(e) == Pred(Mod32(e))

\* np.random.seed accepts 0 <= seed <= 2**32 - 1 and raises ValueError otherwise
NumpyAccepts(s) == s[1] >= 0 /\ s[1] <= Base - 1

\* torch.seed() seeds the torch generator with the value it returns
TorchSeed(r, e) == [ r EXCEPT !.torch = e ]

\* the random sources after set_all_seeds(s), called with sources r
SetAllSeeds(r, s) ==
    IF NumpyAccepts(s)
    THEN [ random |-> s, numpy |-> s, torch |-> s ]
    ELSE [ r EXCEPT !.random = s ]

---------------------------------------------------------------------------
(* Generation, lines 172-213 *)

\* always a full segment
FirstDuration_FullSegment(d, sd) == sd

\* the duration the model is configured with before the first call, lines 174-177
FirstDuration(d, sd) == IF d <= sd THEN d ELSE sd

\* samples of the waveform a model call returns when configured for d seconds
\* (a continuation returns the conditioning tail followed by the new audio, d
\* seconds in all); a non-positive configuration leaves nothing to generate
GeneratedSamples(d) == IF d > 0 THEN d * sample_rate ELSE 0

\* segment[:, :, -n:] for n > 0
LastSamples(len, n) == IF n < len THEN n ELSE len

\* the previous accumulation kept whole
AllButLast_NoTrim(len, n) == len

\* segment[:, :, :-n] for n > 0
AllButLast(len, n) == IF n < len THEN len - n ELSE 0

\* torch.cat([a, b], 2)
Cat(a, b) == a + b

\* the whole segment counted as new audio
Remaining_NoOverlap(d, sd) == d - sd

\* duration -= segment_duration - overlap
Remaining(d, sd) == d - (sd - overlap)

\* the overlap left out of the shortened segment
NextSegmentDuration_NoOverlap(d, sd) == IF d < sd THEN d ELSE sd

\* lines 201-202
NextSegmentDuration(d, sd) == IF d < sd THEN d + overlap ELSE sd

\* one model call: which operation, the duration the model was configured with,
\* the samples accumulated before it, the samples of the conditioning tail passed,
\* the samples returned, and whether the tokens went through the diffusion decoder
Call(kind, cfg, acc, tail, out, mbd) ==
    [ kind |-> kind, cfg |-> cfg, acc |-> acc, tail |-> tail, samples |-> out,
      diffusion |-> mbd ]

Last(s) == s[Len(s)]

---------------------------------------------------------------------------
(* State machine *)

Init ==
    /\ pc = "idle"
    /\ req = NoRequest
    /\ loaded_models = {}
    /\ has_mbd = FALSE
    /\ fetches = 0
    /\ rng = Unseeded
    /\ seed = None
    /\ configs = <<>>
    /\ segment_duration = 0
    /\ duration = 0
    /\ segment = 0
    /\ calls = <<>>
    /\ written = 0
    /\ err = None

\* predict is called with arguments r
Enter(r) ==
    /\ req' = r
    /\ duration' = r.duration
    /\ seed' = r.seed

Raise(e) ==
    /\ pc' = "error"
    /\ err' = e

\* lines 122-123
RejectNoInput ==
    /\ pc = "idle"
    /\ \E r \in Requests :
        /\ Enter(r)
        /\ NoInput(r)
    /\ Raise(<<"ValueError", "Must provide either prompt or input_audio">>)
    /\ UNCHANGED <<loaded_models, has_mbd, fetches, rng, configs,
                   segment_duration, segment, calls, written>>

\* lines 124-130
RejectMelody ==
    /\ pc = "idle"
    /\ \E r \in Requests :
        /\ Enter(r)
        /\ ~NoInput(r)
        /\ MelodyUnsupported(r)
    /\ Raise(<<"ValueError", "model does not support melody input">>)
    /\ UNCHANGED <<loaded_models, has_mbd, fetches, rng, configs,
                   segment_duration, segment, calls, written>>

\* lines 131-134
RejectDiffusion ==
    /\ pc = "idle"
    /\ \E r \in Requests :
        /\ Enter(r)
        /\ ~NoInput(r)
        /\ ~MelodyUnsupported(r)
        /\ DiffusionUnsupported(r)
    /\ Raise(<<"ValueError", "Multi-Band Diffusion is only available with non-stereo models">>)
    /\ UNCHANGED <<loaded_models, has_mbd, fetches, rng, configs,
                   segment_duration, segment, calls, written>>

\* lines 122-152 for a request that passes the three checks: the diffusion
\* decoder and the model are loaded when absent
Load ==
    /\ pc = "idle"
    /\ \E r \in Requests :
        /\ Enter(r)
        /\ ~NoInput(r)
        /\ ~MelodyUnsupported(r)
        /\ ~DiffusionUnsupported(r)
        /\ has_mbd' = (has_mbd \/ r.multi_band_diffusion)
        /\ loaded_models' = loaded_models \cup {r.model_version}
        /\ fetches' = fetches
                      + (IF r.multi_band_diffusion /\ ~has_mbd THEN 1 ELSE 0)
                      + (IF r.model_version \notin loaded_models THEN 1 ELSE 0)
    /\ pc' = "seed"
    /\ UNCHANGED <<rng, configs, segment_duration, segment, calls, written, err>>

\* lines 163-170 when no seed was given: one is drawn and installed
DrawSeed ==
    /\ pc = "seed"
    /\ NoSeed(seed)
    /\ \E e \in Entropy :
        /\ seed' = DrawnSeed(e)
        /\ rng' = SetAllSeeds(TorchSeed(rng, e), DrawnSeed(e))
        /\ IF NumpyAccepts(DrawnSeed(e))
           THEN /\ pc' = "configure"
                /\ segment_duration' = segment_limit
                /\ err' = err
           ELSE /\ Raise(<<"ValueError", "Seed must be between 0 and 2**32 - 1">>)
                /\ segment_duration' = segment_duration
    /\ UNCHANGED <<req, loaded_models, has_mbd, fetches, configs,
                   duration, segment, calls, written>>

\* lines 163-170 when a seed was given
UseSeed ==
    /\ pc = "seed"
    /\ ~NoSeed(seed)
    /\ rng' = SetAllSeeds(rng, seed)
    /\ IF NumpyAccepts(seed)
       THEN /\ pc' = "configure"
            /\ segment_duration' = segment_limit
            /\ err' = err
       ELSE /\ Raise(<<"ValueError", "Seed must be between 0 and 2**32 - 1">>)
            /\ segment_duration' = segment_duration
    /\ UNCHANGED <<req, loaded_models, has_mbd, fetches, seed, configs,
                   duration, segment, calls, written>>

\* lines 172-184: the first, full generation
GenerateFirst ==
    /\ pc = "configure"
    /\ req.input_audio = None
    /\ LET d == FirstDuration(duration, segment_duration)
           out == GeneratedSamples(d)
       IN /\ configs' = Append(configs, d)
          /\ calls' = Append(calls, Call("generate", d, 0, 0, out, req.multi_band_diffusion))
          /\ segment' = out
    /\ duration' = duration - segment_duration
    /\ pc' = "loop"
    /\ UNCHANGED <<req, loaded_models, has_mbd, fetches, rng, seed,
                   segment_duration, written, err>>

\* lines 185-203: one iteration of the continuation loop
Continue ==
    /\ pc = "loop"
    /\ duration > 0
    /\ LET last_sec == LastSamples(segment, overlap * sample_rate)
           next_segment == GeneratedSamples(Last(configs))
           left == Remaining(duration, segment_duration)
           next_duration == NextSegmentDuration(left, segment_duration)
       IN /\ calls' = Append(calls, Call("continuation", Last(configs), segment, last_sec,
                                      next_segment, req.multi_band_diffusion))
          /\ segment' = Cat(AllButLast(segment, overlap * sample_rate), next_segment)
          /\ duration' = left
          /\ segment_duration' = next_duration
          /\ configs' = IF left < segment_duration
                        THEN Append(configs, next_duration)
                        ELSE configs
    /\ pc' = "loop"
    /\ UNCHANGED <<req, loaded_models, has_mbd, fetches, rng, seed, written, err>>

\* line 185: the loop condition fails
ExitLoop ==
    /\ pc = "loop"
    /\ ~(duration > 0)
    /\ pc' = "output"
    /\ UNCHANGED <<req, loaded_models, has_mbd, fetches, rng, seed, configs,
                   segment_duration, duration, segment, calls, written, err>>

\* lines 204-213: generation conditioned on the input audio, in one call
GenerateWithChroma ==
    /\ pc = "configure"
    /\ req.input_audio # None
    /\ configs' = Append(configs, duration)
    /\ calls' = Append(calls, Call("chroma", duration, 0, 0, GeneratedSamples(duration),
                                  req.multi_band_diffusion))
    /\ segment' = GeneratedSamples(duration)
    /\ pc' = "output"
    /\ UNCHANGED <<req, loaded_models, has_mbd, fetches, rng, seed,
                   segment_duration, duration, written, err>>

\* lines 221-231: wav_path is the temporary file object, not its name, so
\* wav_path.parent() (mp3, line 222) and Path(wav_path) (wav, line 231) raise
OutputError(format) ==
    IF format = "mp3"
    THEN <<"AttributeError", "'_io.BufferedWriter' object has no attribute 'parent'">>
    ELSE <<"TypeError", "expected str, bytes or os.PathLike object">>

\* lines 215-231: the waveform is written, then the path of the file is built
WriteOutput ==
    /\ pc = "output"
    /\ written' = segment
    /\ Raise(OutputError(req.output_format))
    /\ UNCHANGED <<req, loaded_models, has_mbd, fetches, rng, seed, configs,
                   segment_duration, duration, segment, calls>>

\* the exception reaches the caller; the locals of the invocation are gone
Leave ==
    /\ pc = "error"
    /\ pc' = "idle"
    /\ req' = NoRequest
    /\ fetches' = 0
    /\ rng' = Unseeded
    /\ seed' = None
    /\ configs' = <<>>
    /\ segment_duration' = 0
    /\ duration' = 0
    /\ segment' = 0
    /\ calls' = <<>>
    /\ written' = 0
    /\ err' = None
    /\ UNCHANGED <<loaded_models, has_mbd>>

Next ==
    \/ RejectNoInput
    \/ RejectMelody
    \/ RejectDiffusion
    \/ Load
    \/ DrawSeed
    \/ UseSeed
    \/ GenerateFirst
    \/ Continue
    \/ ExitLoop
    \/ GenerateWithChroma
    \/ WriteOutput
    \/ Leave

Spec == Init /\ [][Next]_vars

\* predict runs synchronously: once entered, every step of it is taken
\* (whether and when predict is called is up to the caller)
Step ==
    \/ DrawSeed \/ UseSeed \/ GenerateFirst \/ Continue \/ ExitLoop
    \/ GenerateWithChroma \/ WriteOutput

FairSpec == Spec /\ WF_vars(Step)

---------------------------------------------------------------------------
(* Properties *)

Abs(x) == IF x < 0 THEN 0 - x ELSE x

\* ceil(a / b) for b > 0
CeilDiv(a, b) == (a + b - 1) \div b

RECURSIVE SumSamples(_)
SumSamples(s) == IF s = <<>> THEN 0 ELSE s[1].samples + SumSamples(Tail(s))

Seeded(s) == [ random |-> s, numpy |-> s, torch |-> s ]

\* the invocation in progress takes the path without conditioning audio
NoAudioPath == pc # "idle" /\ req.input_audio = None

\* C1: a request with neither prompt nor audio, or with audio for "large" or
\* "stereo-large", or with diffusion decoding for a stereo variant, ends in
\* ValueError, and when it is raised nothing was fetched, loaded, seeded,
\* configured or generated and the model cache is as it was on entry.
C1_InvalidRejectedUpFront ==
    /\ []( ( /\ pc # "idle"
            /\ \/ req.prompt = None /\ req.input_audio = None
               \/ req.model_version \in {Large, StereoLarge} /\ req.input_audio # None
               \/ ContainsWord(req.model_version, "stereo") /\ req.multi_band_diffusion )
          => /\ pc = "error"
             /\ err[1] = "ValueError"
             /\ fetches = 0
             /\ rng = Unseeded
             /\ configs = <<>>
             /\ calls = <<>>
             /\ written = 0 )
    /\ [][ (pc = "idle" /\ pc' = "error")
           => UNCHANGED <<loaded_models, has_mbd>> ]_vars

C1_Witness ==
    /\ pc = "error"
    /\ req.model_version = StereoLarge
    /\ req.multi_band_diffusion
    /\ req.prompt # None
    /\ req.input_audio = None
    /\ loaded_models # {}

\* C2: without conditioning audio and with 1 <= duration <= 30 the model is
\* configured with exactly the requested duration, exactly one call is made, a
\* full generate, and the waveform handed to the output stage has the requested
\* duration.
C2_ShortRequestSingleCall ==
    ( /\ NoAudioPath
      /\ req.duration >= 1
      /\ req.duration <= 30 )
    => /\ \A i \in 1..Len(calls) : calls[i].kind = "generate"
       /\ Len(calls) <= 1
       /\ Len(calls) = 1 => calls[1].cfg = req.duration
       /\ pc = "output" =>
            /\ configs = <<req.duration>>
            /\ Len(calls) = 1
            /\ segment = req.duration * sample_rate
       /\ (pc = "error" /\ err[1] \in {"TypeError", "AttributeError"}) =>
            written = req.duration * sample_rate

C2_Witness ==
    /\ pc = "output"
    /\ NoAudioPath
    /\ req.prompt # None
    /\ req.duration = 8
    /\ calls # <<>>

\* C3 (as claimed): without conditioning audio and with duration > 30, when the
\* loop ends the accumulated waveform is within overlap seconds of the requested
\* duration.
C3_WithinOverlapOfRequested ==
    ( /\ pc = "output"
      /\ NoAudioPath
      /\ req.duration > 30 )
    => Abs(segment - req.duration * sample_rate) <= overlap * sample_rate

\* C4 (as claimed): without conditioning audio and with duration > 30 the number
\* of model calls is ceil((duration - 30) / (30 - overlap)) + 1.
C4_CallCount ==
    ( /\ pc = "output"
      /\ NoAudioPath
      /\ req.duration > 30 )
    => Len(calls) = CeilDiv(req.duration - 30, 30 - overlap) + 1

\* C5 (as claimed): every seed argument other than None and -1 is the value
\* installed into all random sources before the first generation call.
C5_ExplicitSeedInstalled ==
    ( /\ pc \in {"configure", "loop", "output"}
      /\ req.seed # None
      /\ req.seed # MinusOne )
    => rng = Seeded(req.seed)

\* C6 (as claimed): a seed drawn because none was given (None or -1) is accepted
\* by every random source, is the seed reported, and, given back as the seed
\* argument, is installed unchanged.
C6_DrawnSeedReplayable ==
    ( /\ pc # "idle"
      /\ req.seed \in {None, MinusOne}
      /\ rng # Unseeded )
    => /\ rng = Seeded(seed)
       /\ pc # "error" \/ err[1] # "ValueError"
       /\ seed # None /\ seed # Zero /\ seed # MinusOne

\* C7: at every continuation the accumulated waveform holds at least overlap
\* seconds, the conditioning tail is exactly overlap seconds, and the accumulated
\* length is the sum of the segment lengths minus overlap per continuation.
C7_OverlapTrimmedOnce ==
    ( /\ NoAudioPath
      /\ calls # <<>> )
    => /\ \A i \in 2..Len(calls) :
            /\ calls[i].kind = "continuation"
            /\ calls[i].acc >= overlap * sample_rate
            /\ calls[i].tail = overlap * sample_rate
            /\ calls[i].acc = SumSamples(SubSeq(calls, 1, i - 1))
                              - (i - 2) * overlap * sample_rate
       /\ segment = SumSamples(calls) - (Len(calls) - 1) * overlap * sample_rate

C7_Witness ==
    /\ pc = "output"
    /\ NoAudioPath
    /\ Len(calls) >= 3
    /\ calls[3].samples < calls[2].samples

\* C8 (as claimed): without conditioning audio and with duration >= 1 every
\* model call is made with the model configured for 1 <= d <= 30 seconds, and
\* every continuation with d > overlap.
C8_SegmentWithinLimit ==
    ( /\ NoAudioPath
      /\ req.duration >= 1 )
    => \A i \in 1..Len(calls) :
            /\ calls[i].cfg >= 1
            /\ calls[i].cfg <= 30
            /\ calls[i].kind = "continuation" => calls[i].cfg > overlap

\* C9: without conditioning audio and with duration > 30, after the first
\* generate and after every continuation, accumulated duration + remaining
\* duration = requested duration; so the waveform at loop exit is not shorter
\* than requested and its excess is the negated remaining duration.
C9_DurationAccounting ==
    ( /\ NoAudioPath
      /\ req.duration > 30
      /\ pc \in {"loop", "output"} )
    => /\ segment + duration * sample_rate = req.duration * sample_rate
       /\ pc = "output" =>
            /\ segment >= req.duration * sample_rate
            /\ segment - req.duration * sample_rate = (0 - duration) * sample_rate

C9_Witness ==
    /\ pc = "output"
    /\ NoAudioPath
    /\ req.duration > 30
    /\ Len(calls) >= 2
    /\ duration < 0
    /\ segment > req.duration * sample_rate

\* C10: the remaining duration decreases by at least 1 in every continuation
\* iteration, and an invocation that reached the loop reaches the output stage.
C10_LoopTerminates ==
    /\ [][(pc = "loop" /\ pc' = "loop") => duration' <= duration - 1]_vars
    /\ (pc = "loop") ~> (pc = "output")

C10_Witness ==
    /\ pc = "output"
    /\ NoAudioPath
    /\ Len(calls) >= 3
    /\ req.duration % 25 # 5

====
